---- MODULE Spec2Model ----
(***************************************************************************)
(* Model of the IQL evaluation metrics (dbally_benchmark/iql/metrics.py)   *)
(* and of the Runner scenario exercised by tests/unit/views/test_runner.py *)
(***************************************************************************)
EXTENDS Integers, Sequences, FiniteSets, TLC

VARIABLES dataset, call, result, metrics, log, query, applied, sql

vars == <<dataset, call, result, metrics, log, query, applied, sql>>

\* Longest dataset (number of IQLResult records) explored.
MaxLen == 2

\* Longest filters / actions text (number of calls) handed to the Runner.
MaxCalls == 2

-----------------------------------------------------------------------------
(* Texts.  An IQL text is described by its surface form and by the calls   *)
(* written in it.  form:                                                   *)
(*   "unbalanced" - not even host-language syntax ("bad_method(1")         *)
(*   "operator"   - host-parsable, uses an operator IQL does not support   *)
(*   "nonliteral" - host-parsable, an argument is not a literal            *)
(*   "calls"      - conforms to the IQL surface grammar                    *)
(* Each call carries its name and how its arguments relate to the declared *)
(* signature ("ok", "arity", "type") or "fault" when validating it trips   *)
(* an unexpected fault outside the error taxonomy.                         *)

Cl(n, a) == [name |-> n, args |-> a]

Tx(f, cs) == [form |-> f, calls |-> cs]

filter_list == <<[name |-> "method_foo"], [name |-> "method_bar"]>>

action_list == <<[name |-> "action_baz"], [name |-> "action_qux"]>>

FilterTexts ==
  { Tx("calls", <<Cl("method_foo", "ok"), Cl("method_bar", "ok")>>),
    Tx("calls", <<Cl("bad_method", "ok"), Cl("method_bar", "ok")>>),
    Tx("calls", <<Cl("method_bar", "arity")>>),
    Tx("calls", <<Cl("method_foo", "type")>>),
    Tx("calls", <<Cl("method_foo", "fault")>>),
    Tx("calls", << >>),
    Tx("unbalanced", <<Cl("bad_method", "ok")>>),
    Tx("operator", <<Cl("bad_method", "ok"), Cl("method_foo", "ok")>>),
    Tx("nonliteral", <<Cl("method_foo", "ok")>>) }

ActionTexts ==
  { Tx("calls", <<Cl("action_baz", "ok"), Cl("action_qux", "ok")>>),
    Tx("calls", <<Cl("bad_method", "ok")>>),
    Tx("unbalanced", <<Cl("action_qux", "ok")>>) }

IQLResult == [iql_filters : FilterTexts, iql_actions : ActionTexts]

Datasets == UNION { [1..n -> IQLResult] : n \in 0..MaxLen }

-----------------------------------------------------------------------------
(* Exact ratios.  A true division n / d is kept as the reduced pair so     *)
(* that equal quotients are equal values; the integer 0 returned by the    *)
(* guarded branches is the same value as 0 / d.                            *)

RECURSIVE GCD(_, _)
GCD(a, b) == IF b = 0 THEN a ELSE GCD(b, a % b)

Zero == <<0, 1>>

TrueDiv(n, d) == LET g == GCD(n, d) IN <<n \div g, d \div g>>

Returned(v) == [raised |-> "none", value |-> v]

Raised(e) == [raised |-> e, value |-> Zero]

-----------------------------------------------------------------------------
(* Collaborators of metrics.py (ast, dbally.iql, MethodCallVisitor), each   *)
(* described by the contract the design gives it.                          *)

Names(l) == { l[i].name : i \in 1..Len(l) }

\* ast.parse: rejects only text that is not host-language syntax.
AstParses(iql) == iql.form # "unbalanced"

\* MethodCallVisitor.get_method_calls: the names of the calls, as written.
get_method_calls(iql) == [i \in 1..Len(iql.calls) |-> iql.calls[i].name]

\* Semantic validation of the calls, first error wins.
RECURSIVE Validate(_, _, _)
Validate(calls, allowed, i) ==
  IF i > Len(calls) THEN "ok"
  ELSE IF calls[i].name \notin allowed THEN "UnsupportedOperation"
  ELSE IF calls[i].args = "arity" THEN "ArityMismatch"
  ELSE IF calls[i].args = "type" THEN "TypeMismatch"
  ELSE IF calls[i].args = "fault" THEN "Fault"
  ELSE Validate(calls, allowed, i + 1)

\* IQLQuery.parse / IQLActions.parse: "ok" or the kind of exception raised.
Parse(iql, allowed_list) ==
  CASE iql.form = "unbalanced" -> "SyntaxError"
    [] iql.form = "operator" -> "IQLUnsupportedSyntaxError"
    [] iql.form = "nonliteral" -> "IQLError"
    [] OTHER -> Validate(iql.calls, Names(allowed_list), 1)

\* isinstance against the classes an except clause lists: the kinds of the
\* error taxonomy are pairwise distinct, none is a subclass of another.
IsInstance(exc, classes) == exc \in classes

-----------------------------------------------------------------------------
(* metrics.py                                                              *)

InList(x, l) == \E i \in 1..Len(l) : l[i] = x

\* Line 15 inside its try: the extracted names, or the exception raised.
TryExtract(iql) ==
  IF AstParses(iql)
    THEN [exc |-> "none", methods |-> get_method_calls(iql)]
    ELSE [exc |-> "SyntaxError", methods |-> << >>]

\* Variant: no except clause, the extraction's exception leaves the function.
count_hallucinated_NoExcept(iql, allowed_methods) ==
  LET r == TryExtract(iql)
  IN IF r.exc = "none"
       THEN [raised |-> "none",
             counts |-> <<Cardinality({ i \in 1..Len(r.methods) :
                                          ~InList(r.methods[i], allowed_methods) }),
                          Len(r.methods)>>]
       ELSE [raised |-> r.exc, counts |-> <<0, 0>>]

\* Variant: a failed extraction is reported as one hallucinated call.
count_hallucinated_FailureCounts(iql, allowed_methods) ==
  LET r == TryExtract(iql)
  IN IF r.exc = "none"
       THEN [raised |-> "none",
             counts |-> <<Cardinality({ i \in 1..Len(r.methods) :
                                          ~InList(r.methods[i], allowed_methods) }),
                          Len(r.methods)>>]
       ELSE [raised |-> "none", counts |-> <<1, 1>>]

count_hallucinated_methods_for_single_example(iql, allowed_methods) ==
  LET r == TryExtract(iql)
      predicted_methods == r.methods
      hallucinated_methods_count ==
        Cardinality({ i \in 1..Len(predicted_methods) :
                        ~InList(predicted_methods[i], allowed_methods) })
  IN IF r.exc = "none"
       THEN [raised |-> "none",
             counts |-> <<hallucinated_methods_count, Len(predicted_methods)>>]
       ELSE [raised |-> "none", counts |-> <<0, 0>>]

Acc0 == [raised |-> "none", num |-> 0, den |-> 0, counted |-> {},
         per_example |-> << >>, logged |-> << >>]

\* One iteration of the loop of lines 46-51 (and 77-82).
hallucinated_step(acc, iql, allowed) ==
  LET one == count_hallucinated_methods_for_single_example(iql, allowed)
  IN IF one.raised # "none"
       THEN [acc EXCEPT !.raised = one.raised]
       ELSE [acc EXCEPT !.num = @ + one.counts[1],
                        !.den = @ + one.counts[2],
                        !.per_example = Append(@, one.counts)]

RECURSIVE hallucinated_loop(_, _, _, _, _)
hallucinated_loop(ds, field, allowed, i, acc) ==
  IF i > Len(ds) \/ acc.raised # "none" THEN acc
  ELSE hallucinated_loop(ds, field, allowed, i + 1,
                         hallucinated_step(acc, ds[i][field], allowed))

RECURSIVE ProdDen(_)
ProdDen(pairs) ==
  IF pairs = << >> THEN 1
  ELSE (IF Head(pairs)[2] = 0 THEN 1 ELSE Head(pairs)[2]) * ProdDen(Tail(pairs))

RECURSIVE SumScaled(_, _)
SumScaled(pairs, p) ==
  IF pairs = << >> THEN 0
  ELSE (IF Head(pairs)[2] = 0 THEN 0 ELSE Head(pairs)[1] * (p \div Head(pairs)[2]))
       + SumScaled(Tail(pairs), p)

\* Variant: the mean of the per-record ratios instead of the ratio of sums.
hallucinated_ratio_Mean(acc) ==
  IF acc.raised # "none" THEN Raised(acc.raised)
  ELSE IF acc.den = 0 THEN Returned(Zero)
  ELSE LET p == ProdDen(acc.per_example)
       IN Returned(TrueDiv(SumScaled(acc.per_example, p),
                           p * Len(acc.per_example)))

\* Lines 53-56 (and 84-87).
hallucinated_ratio(acc) ==
  IF acc.raised # "none" THEN Raised(acc.raised)
  ELSE IF acc.den = 0 THEN Returned(Zero)
  ELSE Returned(TrueDiv(acc.num, acc.den))

Finish(acc, r) ==
  [raised |-> r.raised, value |-> r.value, num |-> acc.num, den |-> acc.den,
   counted |-> acc.counted, per_example |-> acc.per_example,
   logged |-> acc.logged]

calculate_hallucinated_filters_for_dataset(ds, filters) ==
  LET allowed_filters == [i \in 1..Len(filters) |-> filters[i].name]
      acc == hallucinated_loop(ds, "iql_filters", allowed_filters, 1, Acc0)
  IN Finish(acc, hallucinated_ratio(acc))

calculate_hallucinated_actions_for_dataset(ds, actions) ==
  LET allowed_actions == [i \in 1..Len(actions) |-> actions[i].name]
      acc == hallucinated_loop(ds, "iql_actions", allowed_actions, 1, Acc0)
  IN Finish(acc, hallucinated_ratio(acc))

\* Variant: only the filters text is parsed.
TryParse_FiltersOnly(example, filters, actions) ==
  [exc |-> Parse(example.iql_filters, filters), parsed |-> <<"iql_filters">>]

\* Variant: the actions text is parsed before the filters text.
TryParse_ActionsFirst(example, filters, actions) ==
  LET a == Parse(example.iql_actions, actions)
  IN IF a # "ok"
       THEN [exc |-> a, parsed |-> <<"iql_actions">>]
       ELSE [exc |-> Parse(example.iql_filters, filters),
             parsed |-> <<"iql_actions", "iql_filters">>]

\* The try body of lines 110-111 and 139-140: the actions text is parsed
\* only when parsing the filters text returned.
TryParse(example, filters, actions) ==
  LET f == Parse(example.iql_filters, filters)
  IN IF f # "ok"
       THEN [exc |-> f, parsed |-> <<"iql_filters">>]
       ELSE [exc |-> Parse(example.iql_actions, actions),
             parsed |-> <<"iql_filters", "iql_actions">>]

\* Lines 109-114.
valid_iql_step(acc, example, i, filters, actions) ==
  LET t == TryParse(example, filters, actions)
      seen == [acc EXCEPT !.per_example = Append(@, t.parsed)]
  IN IF t.exc = "ok"
       THEN [seen EXCEPT !.num = @ + 1, !.counted = @ \cup {i}]
       ELSE [seen EXCEPT !.logged = Append(@, t.exc)]

RECURSIVE valid_iql_loop(_, _, _, _, _)
valid_iql_loop(ds, filters, actions, i, acc) ==
  IF i > Len(ds) \/ acc.raised # "none" THEN acc
  ELSE valid_iql_loop(ds, filters, actions, i + 1,
                      valid_iql_step(acc, ds[i], i, filters, actions))

\* Lines 116 and 147: a true division by len(dataset).
DivideByLen(acc, ds) ==
  IF acc.raised # "none" THEN Raised(acc.raised)
  ELSE IF Len(ds) = 0 THEN Raised("ZeroDivisionError")
  ELSE Returned(TrueDiv(acc.num, Len(ds)))

calculate_valid_iql(ds, filters, actions) ==
  LET acc == valid_iql_loop(ds, filters, actions, 1, Acc0)
  IN Finish([acc EXCEPT !.den = Len(ds)], DivideByLen(acc, ds))

SyntaxErrorClasses == {"IQLError", "IQLUnsupportedSyntaxError", "SyntaxError"}

\* Variant: every failure is counted, whatever its kind.
syntax_errors_step_CountAny(acc, example, i, filters, actions) ==
  LET t == TryParse(example, filters, actions)
      seen == [acc EXCEPT !.per_example = Append(@, t.parsed)]
  IN IF t.exc = "ok" THEN seen
     ELSE [seen EXCEPT !.num = @ + 1, !.counted = @ \cup {i}]

\* Variant: the counter is bumped for every record, valid ones included.
syntax_errors_step_CountAlways(acc, example, i, filters, actions) ==
  LET t == TryParse(example, filters, actions)
      seen == [acc EXCEPT !.per_example = Append(@, t.parsed),
                          !.num = @ + 1, !.counted = @ \cup {i}]
  IN IF t.exc = "ok" \/ IsInstance(t.exc, SyntaxErrorClasses) THEN seen
     ELSE [seen EXCEPT !.logged = Append(@, t.exc)]

\* Variant: no broad except clause, an unlisted exception ends the loop.
syntax_errors_step_NoBroadExcept(acc, example, i, filters, actions) ==
  LET t == TryParse(example, filters, actions)
      seen == [acc EXCEPT !.per_example = Append(@, t.parsed)]
  IN IF t.exc = "ok" THEN seen
     ELSE IF IsInstance(t.exc, SyntaxErrorClasses)
       THEN [seen EXCEPT !.num = @ + 1, !.counted = @ \cup {i}]
     ELSE [seen EXCEPT !.raised = t.exc]

\* Lines 138-145.
syntax_errors_step(acc, example, i, filters, actions) ==
  LET t == TryParse(example, filters, actions)
      seen == [acc EXCEPT !.per_example = Append(@, t.parsed)]
  IN IF t.exc = "ok" THEN seen
     ELSE IF IsInstance(t.exc, SyntaxErrorClasses)
       THEN [seen EXCEPT !.num = @ + 1, !.counted = @ \cup {i}]
     ELSE [seen EXCEPT !.logged = Append(@, t.exc)]

RECURSIVE syntax_errors_loop(_, _, _, _, _)
syntax_errors_loop(ds, filters, actions, i, acc) ==
  IF i > Len(ds) \/ acc.raised # "none" THEN acc
  ELSE syntax_errors_loop(ds, filters, actions, i + 1,
                          syntax_errors_step(acc, ds[i], i, filters, actions))

calculate_syntax_errors(ds, filters, actions) ==
  LET acc == syntax_errors_loop(ds, filters, actions, 1, Acc0)
  IN Finish([acc EXCEPT !.den = Len(ds)], DivideByLen(acc, ds))

NoMetrics == << >>

\* Lines 167-174: the four calls in the order the dict literal evaluates
\* them; the first one that raises ends the call.
calculate_dataset_metrics(ds, filters, actions) ==
  LET v == calculate_valid_iql(ds, filters, actions)
      hf == calculate_hallucinated_filters_for_dataset(ds, filters)
      ha == calculate_hallucinated_actions_for_dataset(ds, actions)
      se == calculate_syntax_errors(ds, filters, actions)
  IN IF v.raised # "none" THEN [raised |-> v.raised, metrics |-> NoMetrics, logged |-> v.logged]
     ELSE IF hf.raised # "none" THEN [raised |-> hf.raised, metrics |-> NoMetrics, logged |-> v.logged]
     ELSE IF ha.raised # "none" THEN [raised |-> ha.raised, metrics |-> NoMetrics, logged |-> v.logged]
     ELSE IF se.raised # "none"
       THEN [raised |-> se.raised, metrics |-> NoMetrics, logged |-> v.logged \o se.logged]
     ELSE [raised |-> "none",
           metrics |-> [valid_iql |-> v, hallucinated_filters |-> hf,
                        hallucinated_actions |-> ha, syntax_errors |-> se],
           logged |-> v.logged \o se.logged]

-----------------------------------------------------------------------------
(* The metrics as a state machine: a dataset is given, and each public     *)
(* function may be called on it; result, metrics and log hold what the     *)
(* last call returned (or raised) and what it wrote to the logger.         *)

NoResult == [raised |-> "none", value |-> Zero, num |-> 0, den |-> 0,
             counted |-> {}, per_example |-> << >>, logged |-> << >>]

-----------------------------------------------------------------------------
(* Runner over the registered mock view, as the design describes the      *)
(* Compiler / Runner and as the scenario of                                *)
(* tests/unit/views/test_runner.py drives it.                              *)

\* The view's base query: a literal 'test' projected as foo.
get_select == [select |-> "SELECT 'test' AS foo", where |-> << >>,
               order_by |-> << >>, limit |-> << >>]

Foo(idx) == [name |-> "method_foo", args |-> <<idx>>]

Bar(city, year) == [name |-> "method_bar", args |-> <<city, year>>]

Baz == [name |-> "action_baz", args |-> << >>]

Qux(n) == [name |-> "action_qux", args |-> <<n>>]

FilterCalls == { Foo(1), Foo(2), Bar("London", 2020), Bar("Paris", 5) }

ActionCalls == { Baz, Qux(3), Qux(5) }

SeqsUpTo(S, n) == UNION { [1..k -> S] : k \in 0..n }

\* Filters of the mock view: each returns a literal predicate fragment.
method_foo(idx) == ToString(idx)

method_bar(city, year) == "'hello " \o city \o " in " \o ToString(year) \o "'"

FilterFragment(c) ==
  IF c.name = "method_foo" THEN method_foo(c.args[1])
  ELSE method_bar(c.args[1], c.args[2])

\* Actions of the mock view: each takes the query and returns the next one.
action_baz(q) == [q EXCEPT !.order_by = Append(@, "foo")]

action_qux(q, limit) == [q EXCEPT !.limit = <<limit>>]

ApplyAction(q, c) ==
  IF c.name = "action_baz" THEN action_baz(q) ELSE action_qux(q, c.args[1])

\* The fragments of all filter calls, joined by the conjunction.
apply_filters(q, calls) ==
  [q EXCEPT !.where = @ \o [i \in 1..Len(calls) |-> FilterFragment(calls[i])]]

\* Variant: the actions are applied last one first.
RECURSIVE apply_actions_Reversed(_, _)
apply_actions_Reversed(q, calls) ==
  IF calls = << >> THEN q
  ELSE ApplyAction(apply_actions_Reversed(q, Tail(calls)), Head(calls))

\* The actions one after the other, in source order.
RECURSIVE apply_actions(_, _)
apply_actions(q, calls) ==
  IF calls = << >> THEN q
  ELSE apply_actions(ApplyAction(q, Head(calls)), Tail(calls))

RECURSIVE Join(_, _)
Join(parts, sep) ==
  IF parts = << >> THEN ""
  ELSE IF Len(parts) = 1 THEN parts[1]
  ELSE parts[1] \o sep \o Join(Tail(parts), sep)

\* The compiled text of the query, clause by clause, with the line breaks
\* the query-building library puts between clauses.
generate_sql(q) ==
  <<q.select>>
  \o (IF q.where = << >> THEN << >>
      ELSE <<" ", "\n", "WHERE " \o Join(q.where, " AND ")>>)
  \o (IF q.order_by = << >> THEN << >>
      ELSE <<" ORDER BY " \o Join(q.order_by, ", ")>>)
  \o (IF q.limit = << >> THEN << >>
      ELSE <<"\n", " LIMIT " \o ToString(q.limit[1])>>)

\* str.replace("\n", "") of line 15 of the test.
StripNewlines(pieces) == Join(SelectSeq(pieces, LAMBDA p : p # "\n"), "")

RunnerIdle ==
  /\ query = get_select
  /\ applied = [filters |-> << >>, actions |-> << >>, phase |-> "new"]
  /\ sql = << >>

MetricsIdle ==
  /\ dataset = << >>
  /\ call = "none"
  /\ result = NoResult
  /\ metrics = NoMetrics
  /\ log = << >>

InitRunner == MetricsIdle /\ RunnerIdle

Runner_apply_filters ==
  /\ applied.phase = "new"
  /\ \E calls \in SeqsUpTo(FilterCalls, MaxCalls) :
       /\ query' = apply_filters(query, calls)
       /\ applied' = [applied EXCEPT !.filters = calls, !.phase = "filtered"]
  /\ UNCHANGED <<dataset, call, result, metrics, log, sql>>

Runner_apply_actions ==
  /\ applied.phase = "filtered"
  /\ \E calls \in SeqsUpTo(ActionCalls, MaxCalls) :
       /\ query' = apply_actions(query, calls)
       /\ applied' = [applied EXCEPT !.actions = calls, !.phase = "actioned"]
  /\ UNCHANGED <<dataset, call, result, metrics, log, sql>>

Runner_generate_sql ==
  /\ applied.phase = "actioned"
  /\ sql' = generate_sql(query)
  /\ applied' = [applied EXCEPT !.phase = "generated"]
  /\ UNCHANGED <<dataset, call, result, metrics, log, query>>

NextRunner ==
  \/ Runner_apply_filters
  \/ Runner_apply_actions
  \/ Runner_generate_sql

SpecRunner == InitRunner /\ [][NextRunner]_vars

Init ==
  /\ dataset \in Datasets
  /\ call = "none"
  /\ result = NoResult
  /\ metrics = NoMetrics
  /\ log = << >>
  /\ RunnerIdle

Returns(name, r) ==
  /\ call' = name
  /\ result' = r
  /\ metrics' = NoMetrics
  /\ log' = r.logged
  /\ UNCHANGED <<dataset, query, applied, sql>>

Call_calculate_valid_iql ==
  Returns("calculate_valid_iql", calculate_valid_iql(dataset, filter_list, action_list))

Call_calculate_syntax_errors ==
  Returns("calculate_syntax_errors",
          calculate_syntax_errors(dataset, filter_list, action_list))

Call_calculate_hallucinated_filters ==
  Returns("calculate_hallucinated_filters_for_dataset",
          calculate_hallucinated_filters_for_dataset(dataset, filter_list))

Call_calculate_hallucinated_actions ==
  Returns("calculate_hallucinated_actions_for_dataset",
          calculate_hallucinated_actions_for_dataset(dataset, action_list))

Call_calculate_dataset_metrics ==
  LET r == calculate_dataset_metrics(dataset, filter_list, action_list)
  IN /\ call' = "calculate_dataset_metrics"
     /\ result' = [NoResult EXCEPT !.raised = r.raised]
     /\ metrics' = r.metrics
     /\ log' = r.logged
     /\ UNCHANGED <<dataset, query, applied, sql>>

Next ==
  \/ Call_calculate_valid_iql
  \/ Call_calculate_syntax_errors
  \/ Call_calculate_hallucinated_filters
  \/ Call_calculate_hallucinated_actions
  \/ Call_calculate_dataset_metrics

Spec == Init /\ [][Next]_vars

-----------------------------------------------------------------------------
(* Vocabulary of the properties, stated on the texts themselves.           *)

\* The text violates the IQL surface grammar.
GrammarViolation(iql) == iql.form # "calls"

\* How a call of a grammatical text fares against the registry.
CallVerdict(c, allowed) ==
  IF c.name \notin allowed THEN "semantic"
  ELSE IF c.args \in {"arity", "type"} THEN "semantic"
  ELSE IF c.args = "fault" THEN "unexpected"
  ELSE "fine"

\* "fine", "grammar", "semantic" or "unexpected": what becomes of the text.
TextVerdict(iql, allowed) ==
  IF GrammarViolation(iql) THEN "grammar"
  ELSE LET bad == { i \in 1..Len(iql.calls) :
                      CallVerdict(iql.calls[i], allowed) # "fine" }
       IN IF bad = {} THEN "fine"
          ELSE CallVerdict(iql.calls[CHOOSE i \in bad : \A j \in bad : i <= j],
                           allowed)

FilterVerdict(ex) == TextVerdict(ex.iql_filters, {"method_foo", "method_bar"})

ActionVerdict(ex) == TextVerdict(ex.iql_actions, {"action_baz", "action_qux"})

\* The verdict of the text that fails first, filters before actions.
RecordVerdict(ex) ==
  IF FilterVerdict(ex) # "fine" THEN FilterVerdict(ex) ELSE ActionVerdict(ex)

Indices == 1..Len(dataset)

Remove(ds, i) == [j \in 1..(Len(ds) - 1) |-> IF j < i THEN ds[j] ELSE ds[j + 1]]

Reverse(ds) == [j \in 1..Len(ds) |-> ds[Len(ds) + 1 - j]]

Count(seq, x) == Cardinality({ j \in 1..Len(seq) : seq[j] = x })

\* a / b <= c / d and a / b = c / d for positive denominators.
Leq(r, q) == r[1] * q[2] <= q[1] * r[2]

SameRatio(r, n, d) == r[1] * d = n * r[2]

\* Unknown names and calls of one text, for a text the tolerant pass reads.
Unknown(iql, allowed) ==
  Cardinality({ j \in 1..Len(iql.calls) : iql.calls[j].name \notin allowed })

RECURSIVE SumOver(_, _)
SumOver(f, S) ==
  IF S = {} THEN 0
  ELSE LET x == CHOOSE y \in S : TRUE IN f[x] + SumOver(f, S \ {x})

Readable(ds, field) == { i \in 1..Len(ds) : ds[i][field].form # "unbalanced" }

SumUnknown(ds, field, allowed) ==
  SumOver([i \in 1..Len(ds) |-> Unknown(ds[i][field], allowed)], Readable(ds, field))

SumCalls(ds, field) ==
  SumOver([i \in 1..Len(ds) |-> Len(ds[i][field].calls)], Readable(ds, field))

IsSummedRatio(r, ds, field, allowed) ==
  /\ r.raised = "none"
  /\ IF SumCalls(ds, field) = 0 THEN r.value = Zero
     ELSE SameRatio(r.value, SumUnknown(ds, field, allowed), SumCalls(ds, field))

InMetrics == call = "calculate_dataset_metrics" /\ result.raised = "none"

-----------------------------------------------------------------------------
(* C1.  For an empty dataset every one of the four metrics, and therefore  *)
(* calculate_dataset_metrics, returns 0 and none ends in a division fault. *)
C1_EmptyDatasetYieldsZero ==
  (dataset = << >> /\ call # "none") =>
     /\ result.raised = "none"
     /\ IF call = "calculate_dataset_metrics"
          THEN \A m \in DOMAIN metrics : metrics[m].value = Zero
          ELSE result.value = Zero

C3_HallucinatedIsRatioOfSums ==
  /\ call = "calculate_hallucinated_filters_for_dataset" =>
       /\ IsSummedRatio(result, dataset, "iql_filters", {"method_foo", "method_bar"})
       /\ calculate_hallucinated_filters_for_dataset(Reverse(dataset), filter_list).value
            = result.value
       /\ (Len(dataset) = 1
           /\ dataset[1].iql_filters
                = Tx("calls", <<Cl("bad_method", "ok"), Cl("method_bar", "ok")>>))
          => result.value = <<1, 2>>
  /\ call = "calculate_hallucinated_actions_for_dataset" =>
       /\ IsSummedRatio(result, dataset, "iql_actions", {"action_baz", "action_qux"})
       /\ calculate_hallucinated_actions_for_dataset(Reverse(dataset), action_list).value
            = result.value

\* Two records, 1 unknown of 2 calls and 0 unknown of 1 call: the rate is
\* 1/3, where the mean of the two per-record ratios would be 1/4.
C3_Witness ==
  /\ call = "calculate_hallucinated_filters_for_dataset"
  /\ Len(dataset) = 2
  /\ result.per_example = <<(<<1, 2>>), (<<0, 1>>)>>
  /\ result.value = <<1, 3>>

(* C4.  For a non-empty dataset calculate_valid_iql returns the number of  *)
(* records whose two texts both pass parse and validation, over the number *)
(* of records; a failing record stays in the denominator.                  *)
C4_ValidIqlRatio ==
  (call = "calculate_valid_iql" /\ dataset # << >>) =>
     /\ result.raised = "none"
     /\ result.counted = { i \in Indices : /\ FilterVerdict(dataset[i]) = "fine"
                                           /\ ActionVerdict(dataset[i]) = "fine" }
     /\ SameRatio(result.value, Cardinality(result.counted), Len(dataset))

C4_Witness ==
  /\ call = "calculate_valid_iql"
  /\ Len(dataset) = 2
  /\ FilterVerdict(dataset[1]) = "fine" /\ ActionVerdict(dataset[1]) = "fine"
  /\ FilterVerdict(dataset[2]) = "fine" /\ ActionVerdict(dataset[2]) # "fine"
  /\ result.value = <<1, 2>>

(* C5.  The call-name extraction never raises; a text on which it fails    *)
(* contributes (0, 0), and the counts of the other records are what they   *)
(* are without that record.                                                *)
C5_ExtractionNeverRaises ==
  /\ call = "calculate_hallucinated_filters_for_dataset" =>
       /\ result.raised = "none"
       /\ Len(result.per_example) = Len(dataset)
       /\ \A i \in Indices : ~AstParses(dataset[i].iql_filters) =>
            /\ result.per_example[i] = <<0, 0>>
            /\ LET rest == calculate_hallucinated_filters_for_dataset(
                             Remove(dataset, i), filter_list)
               IN rest.num = result.num /\ rest.den = result.den
  /\ call = "calculate_hallucinated_actions_for_dataset" =>
       /\ result.raised = "none"
       /\ Len(result.per_example) = Len(dataset)
       /\ \A i \in Indices : ~AstParses(dataset[i].iql_actions) =>
            /\ result.per_example[i] = <<0, 0>>
            /\ LET rest == calculate_hallucinated_actions_for_dataset(
                             Remove(dataset, i), action_list)
               IN rest.num = result.num /\ rest.den = result.den

C5_Witness ==
  /\ call = "calculate_hallucinated_filters_for_dataset"
  /\ Len(dataset) = 2
  /\ ~AstParses(dataset[1].iql_filters)
  /\ result.per_example = <<(<<0, 0>>), (<<1, 2>>)>>
  /\ result.value = <<1, 2>>

(* C6, as claimed.  A record whose filters text is grammatically malformed *)
(* adds one to the syntax-error numerator and nothing to the numerator and *)
(* the denominator of the hallucinated-filter rate.                        *)
C6_MalformedNeverHallucination ==
  InMetrics =>
     \A i \in Indices : GrammarViolation(dataset[i].iql_filters) =>
        /\ i \in metrics.syntax_errors.counted
        /\ metrics.hallucinated_filters.per_example[i] = <<0, 0>>

(* C6, amended.  A record whose filters text is grammatically malformed    *)
(* adds one to the syntax-error numerator; it adds nothing to the          *)
(* hallucinated-filter counts when the tolerant extraction pass cannot     *)
(* read the text (an unbalanced parenthesis), and otherwise adds the       *)
(* names the pass extracts from it.                                        *)
C6_UnreadableNeverHallucination ==
  InMetrics =>
     \A i \in Indices : GrammarViolation(dataset[i].iql_filters) =>
        /\ i \in metrics.syntax_errors.counted
        /\ metrics.syntax_errors.num = Cardinality(metrics.syntax_errors.counted)
        /\ metrics.hallucinated_filters.per_example[i] =
             IF dataset[i].iql_filters.form = "unbalanced" THEN <<0, 0>>
             ELSE <<Unknown(dataset[i].iql_filters, {"method_foo", "method_bar"}),
                    Len(dataset[i].iql_filters.calls)>>

C6_Witness ==
  /\ InMetrics
  /\ Len(dataset) = 1
  /\ dataset[1].iql_filters = Tx("unbalanced", <<Cl("bad_method", "ok")>>)
  /\ metrics.syntax_errors.value = <<1, 1>>
  /\ metrics.hallucinated_filters.num = 0
  /\ metrics.hallucinated_filters.den = 0

(* C7.  A record whose validation trips an unexpected fault is logged,     *)
(* adds nothing to the numerator of calculate_valid_iql or                 *)
(* calculate_syntax_errors, and does not end the batch: every record is    *)
(* evaluated and a ratio over the whole dataset is returned.               *)
C7_UnexpectedFaultLoggedNotFatal ==
  (call \in {"calculate_valid_iql", "calculate_syntax_errors"}
   /\ \E i \in Indices : RecordVerdict(dataset[i]) = "unexpected") =>
     /\ result.raised = "none"
     /\ Len(result.per_example) = Len(dataset)
     /\ Count(log, "Fault")
          = Cardinality({ i \in Indices : RecordVerdict(dataset[i]) = "unexpected" })
     /\ \A i \in Indices :
          RecordVerdict(dataset[i]) = "unexpected" =>
             /\ i \notin result.counted
             /\ LET rest == IF call = "calculate_valid_iql"
                              THEN calculate_valid_iql(Remove(dataset, i),
                                                       filter_list, action_list)
                              ELSE calculate_syntax_errors(Remove(dataset, i),
                                                           filter_list, action_list)
                IN rest.num = result.num
     /\ SameRatio(result.value, result.num, Len(dataset))

C7_Witness ==
  /\ call = "calculate_syntax_errors"
  /\ Len(dataset) = 2
  /\ RecordVerdict(dataset[1]) = "unexpected"
  /\ RecordVerdict(dataset[2]) = "grammar"
  /\ log = <<"Fault">>
  /\ result.value = <<1, 2>>

(* C9.  For a non-empty dataset no record is counted both as valid and as  *)
(* a syntax error, so valid_iql + syntax_errors <= 1; both ratios lie in   *)
(* [0, 1]; a hallucinated numerator never exceeds its denominator.         *)
C9_RatiosBounded ==
  (InMetrics /\ dataset # << >>) =>
     LET v == metrics.valid_iql
         se == metrics.syntax_errors
         hf == metrics.hallucinated_filters
         ha == metrics.hallucinated_actions
     IN /\ v.counted \cap se.counted = {}
        /\ v.num = Cardinality(v.counted) /\ se.num = Cardinality(se.counted)
        /\ v.value[1] * se.value[2] + se.value[1] * v.value[2]
             <= v.value[2] * se.value[2]
        /\ Leq(Zero, v.value) /\ Leq(v.value, <<1, 1>>)
        /\ Leq(Zero, se.value) /\ Leq(se.value, <<1, 1>>)
        /\ v.value[2] > 0 /\ se.value[2] > 0
        /\ 0 <= hf.num /\ hf.num <= hf.den
        /\ 0 <= ha.num /\ ha.num <= ha.den

C9_Witness ==
  /\ InMetrics
  /\ Len(dataset) = 2
  /\ metrics.valid_iql.value = <<1, 2>>
  /\ metrics.syntax_errors.value = <<1, 2>>
  /\ metrics.hallucinated_filters.num = 1

(* C10.  Within a record the filters text is parsed first and the actions  *)
(* text only if the filters text succeeded; the first failure alone        *)
(* classifies the record, so a record whose filters text fails outside     *)
(* the grammar is no syntax error even with a malformed actions text.      *)
C10_FirstFailureDecides ==
  call \in {"calculate_valid_iql", "calculate_syntax_errors"} =>
     /\ Len(result.per_example) = Len(dataset)
     /\ \A i \in Indices :
          /\ result.per_example[i] =
               IF FilterVerdict(dataset[i]) = "fine"
                 THEN <<"iql_filters", "iql_actions">> ELSE <<"iql_filters">>
          /\ (/\ call = "calculate_syntax_errors"
              /\ FilterVerdict(dataset[i]) \in {"semantic", "unexpected"}
              /\ GrammarViolation(dataset[i].iql_actions))
             => i \notin result.counted

C10_Witness ==
  /\ call = "calculate_syntax_errors"
  /\ Len(dataset) = 1
  /\ FilterVerdict(dataset[1]) = "semantic"
  /\ GrammarViolation(dataset[1].iql_actions)
  /\ result.value = Zero
  /\ log = <<"UnsupportedOperation">>

-----------------------------------------------------------------------------
(* Runner                                                                  *)

\* The query text the test of the Runner expects.
ExpectedSql ==
  "SELECT 'test' AS foo WHERE 1 AND 'hello London in 2020' ORDER BY foo LIMIT 5"

ScenarioFilters == <<Foo(1), Bar("London", 2020)>>

ScenarioActions == <<Baz, Qux(5)>>

\* The arguments of the action_qux calls of a text, in source order.
QuxArgs(calls) ==
  LET q == SelectSeq(calls, LAMBDA c : c.name = "action_qux")
  IN [i \in 1..Len(q) |-> q[i].args[1]]

(* C8.  The Runner's query is the view's base query with the fragments of  *)
(* all filter calls joined by AND and the actions applied in source order: *)
(* the limit in force is that of the last action_qux, one ordering term    *)
(* per action_baz; no filter call means no predicate; the scenario of the  *)
(* test yields exactly the expected text.                                  *)
C8_RunnerBuildsQueryInOrder ==
  applied.phase = "generated" =>
     LET text == StripNewlines(sql)
         lim == QuxArgs(applied.actions)
     IN /\ query.select = get_select.select
        /\ Len(query.where) = Len(applied.filters)
        /\ \A i \in 1..Len(applied.filters) :
             query.where[i] = FilterFragment(applied.filters[i])
        /\ (applied.filters = << >>) =
             (\A i \in 1..Len(sql) : sql[i] # "WHERE " \o Join(query.where, " AND "))
        /\ query.limit = IF lim = << >> THEN << >> ELSE <<lim[Len(lim)]>>
        /\ Len(query.order_by) = Count(applied.actions, Baz)
        /\ (applied.filters = << >> /\ applied.actions = << >>)
             => text = "SELECT 'test' AS foo"
        /\ (applied.filters = ScenarioFilters /\ applied.actions = ScenarioActions)
             => text = ExpectedSql

C8_Witness ==
  /\ applied.phase = "generated"
  /\ applied.filters = ScenarioFilters
  /\ applied.actions = ScenarioActions
  /\ StripNewlines(sql) = ExpectedSql

====
